---- MODULE Spec2Model ----
(***************************************************************************)
(* Model of the Snowflake id generator (src/src/Snowflake.ts).             *)
(*                                                                         *)
(* JavaScript BigInt values are unbounded two's complement integers.  They *)
(* are represented here exactly, as records [neg, bits]: neg is the sign   *)
(* (the value of every bit above the highest interesting one) and bits is  *)
(* the finite set of bit positions whose bit differs from the sign.  The   *)
(* representation is canonical, so === is record equality.  JavaScript     *)
(* Numbers that hold millisecond clock values (Date.now(), timeOffset) are *)
(* integers below 2^53, where double arithmetic is exact; they use the     *)
(* same representation.  Small Numbers (nodeID) are plain integers.        *)
(***************************************************************************)
EXTENDS Integers, Sequences, FiniteSets, TLC

\* ------------------------------------------------------------ big integers

Max(S) == CHOOSE m \in S : \A q \in S : q <= m

\* The bit positions set in the natural number n < 2^31.
BitsOf(n) == {p \in 0..30 : (n \div (2 ^ p)) % 2 = 1}

\* BigInt(n) for a small integer n.
BigOf(n) ==
  IF n >= 0 THEN [neg |-> FALSE, bits |-> BitsOf(n)]
            ELSE [neg |-> TRUE, bits |-> BitsOf(-n - 1)]

Zero == BigOf(0)
One == BigOf(1)
MinusOne == BigOf(-1)

\* Bit p of x (TRUE = 1), in two's complement with infinite sign extension.
Bit(x, p) == (p \in x.bits) # x.neg

\* x << n
Shl(x, n) ==
  [neg |-> x.neg,
   bits |-> {p + n : p \in x.bits} \cup (IF x.neg THEN 0..(n - 1) ELSE {})]

\* x >> n (arithmetic shift: rounds toward minus infinity)
Shr(x, n) == [neg |-> x.neg, bits |-> {p - n : p \in {q \in x.bits : q >= n}}]

\* x | y
Or(x, y) ==
  LET neg == x.neg \/ y.neg
  IN [neg |-> neg,
      bits |-> {p \in x.bits \cup y.bits : (Bit(x, p) \/ Bit(y, p)) # neg}]

\* x & y
And(x, y) ==
  LET neg == x.neg /\ y.neg
  IN [neg |-> neg,
      bits |-> {p \in x.bits \cup y.bits : (Bit(x, p) /\ Bit(y, p)) # neg}]

\* ~x
Not(x) == [neg |-> ~x.neg, bits |-> x.bits]

\* BigInt.asUintN(n, x): x modulo 2^n
AsUintN(n, x) == [neg |-> FALSE, bits |-> {p \in 0..(n - 1) : Bit(x, p)}]

\* The positions p..top at which x + y + carry has a 1 (ripple carry).
RECURSIVE AddFrom(_, _, _, _, _)
AddFrom(x, y, p, top, carry) ==
  IF p > top THEN {}
  ELSE LET s == (IF Bit(x, p) THEN 1 ELSE 0) + (IF Bit(y, p) THEN 1 ELSE 0) + carry
       IN IF s = 0 THEN AddFrom(x, y, p + 1, top, 0)
          ELSE IF s = 1 THEN {p} \cup AddFrom(x, y, p + 1, top, 0)
          ELSE IF s = 2 THEN AddFrom(x, y, p + 1, top, 1)
          ELSE {p} \cup AddFrom(x, y, p + 1, top, 1)

\* F applied to the value of v, which is evaluated once.
Bind(v, F(_)) == CHOOSE r \in {F(w) : w \in {v}} : TRUE

\* The value whose bits up to top are ones; its sign is its bit top.
Signed(top, ones) ==
  [neg |-> top \in ones, bits |-> {p \in 0..(top - 1) : (p \in ones) # (top \in ones)}]

\* The sum of two values.  Both fit below bit top-1.
AddValues(x, y) ==
  Bind(Max(x.bits \cup y.bits \cup {-1}) + 2,
       LAMBDA top : Bind(AddFrom(x, y, 0, top, 0), LAMBDA ones : Signed(top, ones)))

\* x + y
Add(x, y) == Bind(x, LAMBDA xv : Bind(y, LAMBDA yv : AddValues(xv, yv)))

\* x - y
Sub(x, y) == Add(Add(x, Not(y)), One)

\* x < y
Less(x, y) ==
  IF x.neg # y.neg THEN x.neg
  ELSE LET d == (x.bits \ y.bits) \cup (y.bits \ x.bits)
       IN d # {} /\ ((Max(d) \in y.bits) # x.neg)

RECURSIVE SumBits(_)
SumBits(S) ==
  IF S = {} THEN 0 ELSE LET p == Max(S) IN (2 ^ p) + SumBits(S \ {p})

\* Number(x) for a BigInt x with |x| < 2^31.
ToInt(x) == IF x.neg THEN -1 - SumBits(x.bits) ELSE SumBits(x.bits)

\* ------------------------------------------------------ program constants

TOTAL_BITS == 64
EPOCH_BITS == 42
NODE_ID_BITS == 12
SEQUENCE_BITS == 10

maxNodeID == Sub(Shl(One, NODE_ID_BITS), One)
maxSequence == Sub(Shl(One, SEQUENCE_BITS), One)

\* new Date("01-01-2023").valueOf() = 1672531200000 = 1595050 * 2^20 + 51200
defaultTimeOffset == Add(Shl(BigOf(1595050), 20), BigOf(51200))

\* An optional argument is the set of the values passed: {} when it is
\* absent (undefined), {v} when v is passed.
Absent == {}
Some(v) == {v}
ValueOf(opt) == CHOOSE v \in opt : TRUE

\* --------------------------------------------------------------- encoding

\* MakeID with the timestamp shifted by NODE_ID_SHIFT instead of
\* TIMESTAMP_LEFT_SHIFT, so that it overlaps the node id.
MakeIDNarrowShift(timestamp, nodeID, sequence) ==
  Or(Or(Shl(timestamp, SEQUENCE_BITS), Shl(BigOf(nodeID), SEQUENCE_BITS)), sequence)

\* Snowflake.ts:108-110 with TIMESTAMP_LEFT_SHIFT = NODE_ID_BITS + SEQUENCE_BITS
\* and NODE_ID_SHIFT = SEQUENCE_BITS (lines 81-82).  nodeID is a Number.
MakeID(timestamp, nodeID, sequence) ==
  Or(Or(Shl(timestamp, NODE_ID_BITS + SEQUENCE_BITS),
        Shl(BigOf(nodeID), SEQUENCE_BITS)),
     sequence)

\* !timeOffset is true for undefined and for 0.
EffectiveTimeOffset(timeOffset) ==
  IF timeOffset = Absent \/ timeOffset = Some(Zero)
    THEN defaultTimeOffset
    ELSE ValueOf(timeOffset)

\* Snowflake.getTimestampFromID(id, timeOffset?)
getTimestampFromID(id, timeOffset) ==
  Add(AsUintN(EPOCH_BITS, Shr(id, TOTAL_BITS - EPOCH_BITS)),
      EffectiveTimeOffset(timeOffset))

\* Snowflake.getNodeIDFromID(id)
getNodeIDFromID(id) ==
  ToInt(AsUintN(NODE_ID_BITS, Shr(Shl(id, EPOCH_BITS), EPOCH_BITS + SEQUENCE_BITS)))

\* Snowflake.getSequenceFromID(id)
getSequenceFromID(id) ==
  ToInt(AsUintN(SEQUENCE_BITS,
                Shr(Shl(id, TOTAL_BITS - SEQUENCE_BITS), TOTAL_BITS - SEQUENCE_BITS)))

\* isMonotonic(array): every element is greater than the one before it.
isMonotonic(array) ==
  \A idx \in 1..Len(array) : idx > 1 => Less(array[idx - 1], array[idx])

\* ------------------------------------------------------------ construction

\* !nodeID is true for undefined and for 0.
EffectiveNodeID(nodeID, hostHash) ==
  IF nodeID = Absent \/ nodeID = Some(0) THEN hostHash ELSE ValueOf(nodeID)

\* The constructor without the mask of line 61.
ConstructorUnmasked(nodeID, timeOffset, hostHash) ==
  [nodeID |-> EffectiveNodeID(nodeID, hostHash),
   timeOffset |-> EffectiveTimeOffset(timeOffset),
   lastTimestamp |-> Zero,
   lastSequence |-> MinusOne]

\* new Snowflake(nodeID, timeOffset); hostHash is the value FNV.compress gives
\* for this host and process.  nodeID & Number(maxNodeID) is a 32-bit integer
\* operation; the node ids passed here are far below 2^31.
Constructor(nodeID, timeOffset, hostHash) ==
  [nodeID |-> ToInt(And(BigOf(EffectiveNodeID(nodeID, hostHash)), maxNodeID)),
   timeOffset |-> EffectiveTimeOffset(timeOffset),
   lastTimestamp |-> Zero,
   lastSequence |-> MinusOne]

\* ---------------------------------------------------------------- genNewID

\* BigInt(Date.now() - this.timeOffset)
ReadTimestamp(self, clock) == Sub(clock, self.timeOffset)

\* GenStart as the older generator did it: the sequence wraps around to 0
\* within the same millisecond and the call does not wait for the next one.
GenStartWrap(self, timestamp) ==
  IF timestamp = self.lastTimestamp
    THEN [await |-> FALSE, timestamp |-> timestamp,
          sequence |-> And(Add(self.lastSequence, One), maxSequence)]
    ELSE [await |-> FALSE, timestamp |-> timestamp, sequence |-> Zero]

\* GenStart without the test of line 91: the call never waits and the
\* sequence goes beyond maxSequence.
GenStartNoWait(self, timestamp) ==
  LET sequence == Add(self.lastSequence, One)
  IN IF timestamp = self.lastTimestamp
       THEN [await |-> FALSE, timestamp |-> timestamp, sequence |-> sequence]
       ELSE [await |-> FALSE, timestamp |-> timestamp, sequence |-> Zero]

\* GenStart without the reset of line 102: the sequence goes on counting in a
\* new millisecond.
GenStartNoReset(self, timestamp) ==
  LET sequence == Add(self.lastSequence, One)
  IN IF timestamp = self.lastTimestamp
       THEN [await |-> Less(maxSequence, sequence),
             timestamp |-> timestamp, sequence |-> sequence]
       ELSE [await |-> FALSE, timestamp |-> timestamp, sequence |-> sequence]

\* GenStart waiting one call early: at the last sequence number instead of
\* beyond it.
GenStartEarlyWait(self, timestamp) ==
  LET sequence == Add(self.lastSequence, One)
  IN IF timestamp = self.lastTimestamp
       THEN [await |-> ~Less(sequence, maxSequence),
             timestamp |-> timestamp, sequence |-> sequence]
       ELSE [await |-> FALSE, timestamp |-> timestamp, sequence |-> Zero]

\* Lines 85-103: the part of genNewID that runs before its first await, given
\* the timestamp read at line 84.  await = TRUE: the call is suspended in
\* sleep(1) (line 95).
GenStart(self, timestamp) ==
  LET sequence == Add(self.lastSequence, One)
  IN IF timestamp = self.lastTimestamp
       THEN [await |-> Less(maxSequence, sequence),
             timestamp |-> timestamp, sequence |-> sequence]
       ELSE [await |-> FALSE, timestamp |-> timestamp, sequence |-> Zero]

\* GenResume with the loop condition of line 97 negated: the call leaves the
\* loop in the millisecond of the last id and sleeps on in any other.
GenResumeSameMs(self, timestamp) ==
  [await |-> (timestamp # self.lastTimestamp),
   timestamp |-> timestamp, sequence |-> Zero]

\* GenResume without the loop condition: one sleep, then the call goes on
\* whatever the clock reads.
GenResumeOnce(self, timestamp) ==
  [await |-> FALSE, timestamp |-> timestamp, sequence |-> Zero]

\* Lines 97-98: what runs when the sleep's timer has fired, given the
\* timestamp read at line 96.
GenResume(self, timestamp) ==
  [await |-> (timestamp = self.lastTimestamp),
   timestamp |-> timestamp, sequence |-> Zero]

\* Lines 105-106.
GenWrite(self, r) ==
  [self EXCEPT !.lastTimestamp = r.timestamp, !.lastSequence = r.sequence]

\* Lines 108-110.
GenResult(self, r) == MakeID(r.timestamp, self.nodeID, r.sequence)

\* ------------------------------------------------------------------ bounds

\* Clock ticks, genNewID calls made one by one, and the number of calls in a
\* burst.
MaxTicks == 2
MaxCalls == 3
BurstSize == 1023

\* ------------------------------------------------------------------- inputs

Callers == {1, 2}

\* The caller of the test's loop, which awaits each call before the next.
Awaiter == 1

\* Date.now() when the program starts: two milliseconds after the default
\* epoch.
InitialClock == Add(defaultTimeOffset, BigOf(2))

\* opts.nodeID: absent, 0, the test's 4090, and a value above 12 bits.
NodeIDInputs == {Absent, Some(0), Some(4090), Some(8191)}

\* What the host hash can give (FNV.compress(12, ...), an external value).
HostHashes == {1365}

\* opts.timeOffset: absent, 0, Date.now() (as in the README), and one
\* millisecond in the future.
TimeOffsetInputs ==
  {Absent, Some(Zero), Some(InitialClock), Some(Add(InitialClock, One))}

\* -------------------------------------------------------------------- state

VARIABLES
  now,        \* Date.now()
  instance,   \* Snowflake.instance: {} (undefined) or {the Snowflake object}
  given,      \* the options the instance was constructed with (history)
  pc,         \* per caller: "idle", or "sleeping" in genNewID's await
  call,       \* per caller: what is known of its suspended call (history)
  hist,       \* the ids returned so far, in the order they were returned
  maxIssued,  \* the greatest id returned so far, if any (history)
  started,    \* genNewID calls started outside bursts
  ticks,      \* clock ticks so far
  codec       \* an id made from given fields and what it decodes to

vars ==
  <<now, instance, given, pc, call, hist, maxIssued, started, ticks, codec>>

self == ValueOf(instance)
lastTimestamp == self.lastTimestamp
lastSequence == self.lastSequence

\* What is remembered of a call when it starts: the greatest id returned
\* before (floor), the timestamp it found exhausted if it has to wait
\* (waited), and its place in the order of call starts.
NoCall == [floor |-> {}, waited |-> {}, order |-> 0]

Init ==
  /\ now = InitialClock
  /\ instance = {}
  /\ given = {}
  /\ pc = [c \in Callers |-> "idle"]
  /\ call = [c \in Callers |-> NoCall]
  /\ hist = <<>>
  /\ maxIssued = {}
  /\ started = 0
  /\ ticks = 0
  /\ codec = {}

\* ------------------------------------------------------------------ actions

\* Snowflake.get(opts), first call: constructs the instance (lines 72-73).
GetFirst(nodeID, timeOffset, hostHash) ==
  /\ instance = {}
  /\ instance' = {Constructor(nodeID, timeOffset, hostHash)}
  /\ given' = {[nodeID |-> nodeID, timeOffset |-> timeOffset]}
  /\ UNCHANGED <<now, pc, call, hist, maxIssued, started, ticks, codec>>

\* Snowflake.get(opts), later calls: returns the instance and does not read
\* opts (lines 68-70).
GetAgain ==
  /\ instance # {}
  /\ UNCHANGED vars

\* The wall clock moves to the next millisecond.
Tick ==
  /\ ticks < MaxTicks
  /\ ticks' = ticks + 1
  /\ now' = Add(now, One)
  /\ UNCHANGED <<instance, given, pc, call, hist, maxIssued, started, codec>>

\* The greatest of the ids returned so far and id.
MaxWith(most, id) == IF most = {} \/ Less(ValueOf(most), id) THEN {id} ELSE most

\* The record of a returned id: the id, who called, the timestamp the call
\* found exhausted if it had to wait, and the call's place in the order of
\* call starts.
Entry(id, c, info) ==
  [id |-> id, caller |-> c, waited |-> info.waited, order |-> info.order]

\* The generator and its history as one value, for calls that run in a row.
Snapshot == [self |-> self, hist |-> hist, maxIssued |-> maxIssued, sync |-> TRUE]

\* One genNewID call by c that returns without waiting, applied to st;
\* sync becomes FALSE when the call would have to wait.
SyncCall(st, c, timestamp, first) ==
  LET r == GenStart(st.self, timestamp)
      info == [floor |-> st.maxIssued, waited |-> {},
               order |-> first + Len(st.hist) - Len(hist)]
  IN IF ~st.sync \/ r.await
       THEN [st EXCEPT !.sync = FALSE]
       ELSE LET id == GenResult(st.self, r)
            IN [self |-> GenWrite(st.self, r),
                hist |-> Append(st.hist, Entry(id, c, info)),
                maxIssued |-> MaxWith(st.maxIssued, id),
                sync |-> TRUE]

\* k awaited calls in a row by c (the loop of the test, part_000:27-30).
\* Date.now() reads the same millisecond in each of them, so the timestamp
\* of line 84 is the same value each time.
RECURSIVE Repeat(_, _, _, _, _)
Repeat(st, c, timestamp, first, k) ==
  IF k = 0 THEN st
  ELSE IF k = 1 THEN SyncCall(st, c, timestamp, first)
  ELSE LET half == Repeat(st, c, timestamp, first, k \div 2)
       IN IF half.sync THEN Repeat(half, c, timestamp, first, k - (k \div 2)) ELSE half

\* The number of calls started so far.
Order == Len(hist) + Cardinality({c \in Callers : pc[c] = "sleeping"})

\* genNewID called by c, up to its return or its first await.
Call(c) ==
  /\ instance # {}
  /\ pc[c] = "idle"
  /\ started < MaxCalls
  /\ started' = started + 1
  /\ LET r == GenStart(self, ReadTimestamp(self, now))
         info == [floor |-> maxIssued, waited |-> {}, order |-> Order + 1]
     IN IF r.await
          THEN /\ pc' = [pc EXCEPT ![c] = "sleeping"]
               /\ call' = [call EXCEPT ![c] = [info EXCEPT !.waited = {r.timestamp}]]
               /\ UNCHANGED <<instance, hist, maxIssued>>
          ELSE /\ instance' = {GenWrite(self, r)}
               /\ hist' = Append(hist, Entry(GenResult(self, r), c, info))
               /\ maxIssued' = MaxWith(maxIssued, GenResult(self, r))
               /\ UNCHANGED <<pc, call>>
  /\ UNCHANGED <<now, given, ticks, codec>>

\* The timer of c's sleep(1) fires: one more turn of the do-while loop, which
\* either sleeps again or leaves the loop, writes the state and returns.
Wake(c) ==
  /\ pc[c] = "sleeping"
  /\ LET r == GenResume(self, ReadTimestamp(self, now))
     IN IF r.await
          THEN UNCHANGED <<instance, pc, call, hist, maxIssued>>
          ELSE /\ instance' = {GenWrite(self, r)}
               /\ hist' = Append(hist, Entry(GenResult(self, r), c, call[c]))
               /\ maxIssued' = MaxWith(maxIssued, GenResult(self, r))
               /\ pc' = [pc EXCEPT ![c] = "idle"]
               /\ call' = [call EXCEPT ![c] = NoCall]
  /\ UNCHANGED <<now, given, started, ticks, codec>>

\* The program's first use of the generator, in the millisecond it starts
\* in: BurstSize awaited calls in a row by the first caller, all within that
\* millisecond and none of them waiting.  Between two of them only microtasks
\* run, so no timer fires and no other caller runs.
Burst ==
  /\ instance # {}
  /\ hist = <<>>
  /\ started = 0
  /\ ticks = 0
  /\ LET st == Repeat(Snapshot, 1, ReadTimestamp(self, now), 1, BurstSize)
     IN /\ st.sync
        /\ instance' = {st.self}
        /\ hist' = st.hist
        /\ maxIssued' = st.maxIssued
  /\ UNCHANGED <<now, given, pc, call, started, ticks, codec>>

Next ==
  \/ \E n \in NodeIDInputs, t \in TimeOffsetInputs, h \in HostHashes : GetFirst(n, t, h)
  \/ GetAgain
  \/ Tick
  \/ \E c \in Callers : Call(c)
  \/ \E c \in Callers : Wake(c)
  \/ Burst

Spec == Init /\ [][Next]_vars

\* ------------------------------------------------- a clock that steps back

\* Date.now() is the wall clock, which the system may set back (a time
\* synchronisation step): it returns to the millisecond before.  ticks is then
\* the number of milliseconds the clock is ahead of InitialClock.
ClockBack ==
  /\ ticks > 0
  /\ ticks' = ticks - 1
  /\ now' = Sub(now, One)
  /\ UNCHANGED <<instance, given, pc, call, hist, maxIssued, started, codec>>

RegressNext ==
  \/ Next
  \/ ClockBack

RegressSpec == Init /\ [][RegressNext]_vars

\* ------------------------------------------------- get called again

\* The number of different option values passed to Snowflake.get.
MaxGets == 2

\* The options of the later get calls: none, and a node id and a timeOffset
\* that differ from what any instance has.
LaterNodeIDInputs == {Absent, Some(8191)}
LaterTimeOffsetInputs == {Absent, Some(One)}

\* Snowflake.get(opts) that constructs a new instance each time.
LaterGetRebuild(nodeID, timeOffset) ==
  /\ instance # {}
  /\ Cardinality(given) < MaxGets
  /\ given' = given \cup {[nodeID |-> nodeID, timeOffset |-> timeOffset]}
  /\ \E h \in HostHashes : instance' = {Constructor(nodeID, timeOffset, h)}
  /\ UNCHANGED <<now, pc, call, hist, maxIssued, started, ticks, codec>>

\* Snowflake.get(opts) when the instance exists (lines 68-70): GetAgain, with
\* the options it was called with remembered in given, next to those of the
\* first call.
LaterGet(nodeID, timeOffset) ==
  /\ instance # {}
  /\ Cardinality(given) < MaxGets
  /\ given' = given \cup {[nodeID |-> nodeID, timeOffset |-> timeOffset]}
  /\ UNCHANGED <<now, instance, pc, call, hist, maxIssued, started, ticks, codec>>

\* The three static decoding functions applied to the id returned last, with
\* the instance's timeOffset.
DecodeLast ==
  /\ hist # <<>>
  /\ codec = {}
  /\ LET id == hist[Len(hist)].id
     IN codec' = {[id |-> id,
                   decoded |-> {[timestamp |-> getTimestampFromID(id, Some(self.timeOffset)),
                                 nodeID |-> getNodeIDFromID(id),
                                 sequence |-> getSequenceFromID(id)]}]}
  /\ UNCHANGED <<now, instance, given, pc, call, hist, maxIssued, started, ticks>>

ConfigNext ==
  \/ \E n \in NodeIDInputs, t \in TimeOffsetInputs, h \in HostHashes : GetFirst(n, t, h)
  \/ \E n \in LaterNodeIDInputs, t \in LaterTimeOffsetInputs : LaterGet(n, t)
  \/ Tick
  \/ Call(Awaiter)
  \/ DecodeLast

ConfigSpec == Init /\ [][ConfigNext]_vars

\* ------------------------------------------ the older generator (part_001)

\* new Date("01-01-2020").valueOf() = 1577836800000
OldDefaultTimeOffset == Add(Shl(BigOf(1504742), 20), BigOf(452608))

\* Lines 52-54 of part_001.
OldEffectiveTimeOffset(timeOffset) ==
  IF timeOffset = Absent \/ timeOffset = Some(Zero)
    THEN OldDefaultTimeOffset ELSE ValueOf(timeOffset)

\* Lines 40-41 and 46-58 of part_001: lastTime and sequence start at 0.
OldConstructor(nodeID, timeOffset, hostHash) ==
  [nodeID |-> ToInt(And(BigOf(EffectiveNodeID(nodeID, hostHash)), maxNodeID)),
   timeOffset |-> OldEffectiveTimeOffset(timeOffset),
   lastTime |-> Zero,
   sequence |-> 0]

\* Lines 75-83 of part_001, given the value of now read at line 73: the
\* sequence is written at once; await = TRUE: the call is suspended in
\* sleep (line 79).
OldGenStart(old, timestamp) ==
  IF old.lastTime = timestamp
    THEN LET sequence == ToInt(And(BigOf(old.sequence + 1), maxSequence))
         IN [await |-> (sequence = 0), self |-> [old EXCEPT !.sequence = sequence]]
    ELSE [await |-> FALSE, self |-> [old EXCEPT !.sequence = 0]]

\* Line 85 of part_001; now is the value read at line 73, before any sleep.
OldGenWrite(old, timestamp) == [old EXCEPT !.lastTime = timestamp]

\* Lines 87-92 of part_001.
OldGenResult(old, timestamp) ==
  Or(Or(Shl(timestamp, TOTAL_BITS - EPOCH_BITS),
        Shl(BigOf(old.nodeID), TOTAL_BITS - EPOCH_BITS - NODE_ID_BITS)),
     BigOf(old.sequence))

\* Snowflake.get(opts) of part_001, first call.
OldGet(nodeID, timeOffset, hostHash) ==
  /\ instance = {}
  /\ instance' = {OldConstructor(nodeID, timeOffset, hostHash)}
  /\ given' = {[nodeID |-> nodeID, timeOffset |-> timeOffset]}
  /\ UNCHANGED <<now, pc, call, hist, maxIssued, started, ticks, codec>>

\* One call that returns without sleeping, applied to st.
OldSyncCall(st, timestamp, first) ==
  LET r == OldGenStart(st.self, timestamp)
      info == [floor |-> st.maxIssued, waited |-> {},
               order |-> first + Len(st.hist) - Len(hist)]
  IN IF ~st.sync \/ r.await
       THEN [st EXCEPT !.sync = FALSE]
       ELSE LET id == OldGenResult(r.self, timestamp)
            IN [self |-> OldGenWrite(r.self, timestamp),
                hist |-> Append(st.hist, Entry(id, Awaiter, info)),
                maxIssued |-> MaxWith(st.maxIssued, id),
                sync |-> TRUE]

\* k awaited calls in a row within one millisecond (part_000:27-30).
RECURSIVE OldRepeat(_, _, _, _)
OldRepeat(st, timestamp, first, k) ==
  IF k = 0 THEN st
  ELSE IF k = 1 THEN OldSyncCall(st, timestamp, first)
  ELSE LET half == OldRepeat(st, timestamp, first, k \div 2)
       IN IF half.sync THEN OldRepeat(half, timestamp, first, k - (k \div 2)) ELSE half

\* genNewID of part_001 called by the awaiting caller, up to its return or its
\* await.
OldCall ==
  /\ instance # {}
  /\ pc[Awaiter] = "idle"
  /\ started < MaxCalls
  /\ started' = started + 1
  /\ LET timestamp == Sub(now, self.timeOffset)
         r == OldGenStart(self, timestamp)
         info == [floor |-> maxIssued, waited |-> {}, order |-> Len(hist) + 1]
     IN IF r.await
          THEN /\ instance' = {r.self}
               /\ pc' = [pc EXCEPT ![Awaiter] = "sleeping"]
               /\ call' = [call EXCEPT ![Awaiter] = [info EXCEPT !.waited = {timestamp}]]
               /\ UNCHANGED <<hist, maxIssued>>
          ELSE /\ instance' = {OldGenWrite(r.self, timestamp)}
               /\ hist' = Append(hist, Entry(OldGenResult(r.self, timestamp), Awaiter, info))
               /\ maxIssued' = MaxWith(maxIssued, OldGenResult(r.self, timestamp))
               /\ UNCHANGED <<pc, call>>
  /\ UNCHANGED <<now, given, ticks, codec>>

\* The sleep of line 79 is over: the call goes on with the value of now it
\* read before (lines 85-92).
OldWake ==
  /\ pc[Awaiter] = "sleeping"
  /\ LET timestamp == ValueOf(call[Awaiter].waited)
     IN /\ instance' = {OldGenWrite(self, timestamp)}
        /\ hist' = Append(hist, Entry(OldGenResult(self, timestamp), Awaiter, call[Awaiter]))
        /\ maxIssued' = MaxWith(maxIssued, OldGenResult(self, timestamp))
  /\ pc' = [pc EXCEPT ![Awaiter] = "idle"]
  /\ call' = [call EXCEPT ![Awaiter] = NoCall]
  /\ UNCHANGED <<now, given, started, ticks, codec>>

\* The first BurstSize awaited calls, all within the millisecond the program
\* starts in.
OldBurst ==
  /\ instance # {}
  /\ hist = <<>>
  /\ started = 0
  /\ ticks = 0
  /\ LET st == OldRepeat(Snapshot, Sub(now, self.timeOffset), 1, BurstSize)
     IN /\ st.sync
        /\ instance' = {st.self}
        /\ hist' = st.hist
        /\ maxIssued' = st.maxIssued
  /\ UNCHANGED <<now, given, pc, call, started, ticks, codec>>

OldNext ==
  \/ \E n \in NodeIDInputs, t \in TimeOffsetInputs, h \in HostHashes : OldGet(n, t, h)
  \/ Tick
  \/ OldCall
  \/ OldWake
  \/ OldBurst

OldSpec == Init /\ [][OldNext]_vars

\* ------------------------------------------------- encoding and decoding alone

\* The bit fields an id is made from: timestamps at both ends of the 42-bit
\* range and around its middle, and one beyond it.
TimestampInputs ==
  {Zero, One, Sub(Shl(One, EPOCH_BITS - 1), One), Shl(One, EPOCH_BITS - 1),
   Sub(Shl(One, EPOCH_BITS), One), Shl(One, EPOCH_BITS)}
NodeFieldInputs == {0, 1, 4090, 4095}
SequenceInputs == {0, 1, 1023}

\* The timeOffset passed to getTimestampFromID.
DecodeOffsetInputs == {Zero, One, defaultTimeOffset, InitialClock}

\* The id genNewID builds at lines 108-110 from the three fields.
Encode(timestamp, nodeID, sequence, timeOffset) ==
  /\ codec = {}
  /\ codec' = {[timestamp |-> timestamp, nodeID |-> nodeID, sequence |-> sequence,
                timeOffset |-> timeOffset,
                id |-> MakeID(timestamp, nodeID, BigOf(sequence)),
                decoded |-> {}]}
  /\ UNCHANGED <<now, instance, given, pc, call, hist, maxIssued, started, ticks>>

\* The three static decoding functions applied to that id.
Decode ==
  /\ codec # {}
  /\ ValueOf(codec).decoded = {}
  /\ LET x == ValueOf(codec)
     IN codec' = {[x EXCEPT !.decoded =
                     {[timestamp |-> getTimestampFromID(x.id, Some(x.timeOffset)),
                       nodeID |-> getNodeIDFromID(x.id),
                       sequence |-> getSequenceFromID(x.id)]}]}
  /\ UNCHANGED <<now, instance, given, pc, call, hist, maxIssued, started, ticks>>

CodecNext ==
  \/ \E t \in TimestampInputs, n \in NodeFieldInputs, q \in SequenceInputs,
        e \in DecodeOffsetInputs : Encode(t, n, q, e)
  \/ Decode

CodecSpec == Init /\ [][CodecNext]_vars

\* ------------------------------------------------------- runs without end

\* The number of clock values in the ring below.
ClockRing == 3

\* In a run without end the clock grows without bound and so does the history.
\* genNewID uses the clock only to compare the timestamp with lastTimestamp,
\* so here the history is not kept and the clock takes its values from a ring
\* of ClockRing consecutive milliseconds.  A real clock never returns to the
\* millisecond lastTimestamp was read in, so a tick onto that value is not
\* taken: every comparison then comes out as it does with the real clock.
\* started counts the calls begun in the current millisecond, at most MaxCalls;
\* the sequence gets near its maximum by the awaited loop of LiveBurst.
NextClock ==
  IF now = Add(InitialClock, BigOf(ClockRing - 1)) THEN InitialClock ELSE Add(now, One)

LiveTick ==
  /\ instance # {}
  /\ ReadTimestamp(self, NextClock) # lastTimestamp
  /\ now' = NextClock
  /\ started' = 0
  /\ UNCHANGED <<instance, given, pc, call, hist, maxIssued, ticks, codec>>

\* Snowflake.get({nodeID: 4090}), as in the test.
LiveGet == \E h \in HostHashes : GetFirst(Some(4090), Absent, h)

\* BurstSize awaited calls in a row on the fresh instance, none of them
\* waiting: the loop of the monotonicity test, within one millisecond.
LiveBurst ==
  /\ instance # {}
  /\ lastSequence = MinusOne
  /\ \A c \in Callers : pc[c] = "idle"
  /\ LET st == Repeat(Snapshot, 1, ReadTimestamp(self, now), 1, BurstSize)
     IN /\ st.sync
        /\ instance' = {st.self}
  /\ UNCHANGED <<now, given, pc, call, hist, maxIssued, started, ticks, codec>>

\* genNewID called by c, up to its return or its first await.
LiveCall(c) ==
  /\ instance # {}
  /\ pc[c] = "idle"
  /\ started < MaxCalls
  /\ started' = started + 1
  /\ LET r == GenStart(self, ReadTimestamp(self, now))
     IN IF r.await
          THEN pc' = [pc EXCEPT ![c] = "sleeping"] /\ UNCHANGED instance
          ELSE instance' = {GenWrite(self, r)} /\ UNCHANGED pc
  /\ UNCHANGED <<now, given, call, hist, maxIssued, ticks, codec>>

\* The timer of c's sleep(1) fires: one more turn of the do-while loop.
LiveWake(c) ==
  /\ pc[c] = "sleeping"
  /\ LET r == GenResume(self, ReadTimestamp(self, now))
     IN IF r.await
          THEN UNCHANGED <<instance, pc>>
          ELSE instance' = {GenWrite(self, r)} /\ pc' = [pc EXCEPT ![c] = "idle"]
  /\ UNCHANGED <<now, given, call, hist, maxIssued, started, ticks, codec>>

LiveNext ==
  \/ LiveGet
  \/ LiveTick
  \/ LiveBurst
  \/ \E c \in Callers : LiveCall(c)
  \/ \E c \in Callers : LiveWake(c)

\* The clock keeps advancing and every timer fires: a suspended call whose
\* loop can end is resumed.  Callers are free to call or not.
LiveSpec ==
  /\ Init
  /\ [][LiveNext]_vars
  /\ WF_vars(LiveTick)
  /\ \A c \in Callers : WF_vars(LiveWake(c))

\* ------------------------------------------------------------------- claims

Ids == {hist[j].id : j \in 1..Len(hist)}

\* The entries this step adds to hist: one for a call or a wake that returns,
\* BurstSize for a burst, whose calls start and return one after another.
New == (Len(hist) + 1)..Len(hist')

\* The greatest id returned before the call behind the new entry j started.
\* A call that waited remembered it when it started.  A call that returns at
\* once starts now: it is the greatest id so far, and within a burst also the
\* id returned just before (the greatest of the burst's ids so far whenever
\* the burst's earlier ids satisfy C2 themselves).
FloorOfNew(j) ==
  IF hist'[j].waited # {} THEN call[hist'[j].caller].floor
  ELSE IF j = Len(hist) + 1 THEN maxIssued
  ELSE MaxWith(maxIssued, hist'[j - 1].id)

\* Bits 63..22 of id as an unsigned 42-bit number (lines 117-120).
TimestampField(id) == AsUintN(EPOCH_BITS, Shr(id, TOTAL_BITS - EPOCH_BITS))

\* The entries of calls that had to wait.
Waited == {j \in 1..Len(hist) : hist[j].waited # {}}

\* C1 (uniqueness): an id that genNewID returns has not been returned before,
\* whatever the interleaving of callers, waiting calls and clock ticks.
C1_Unique ==
  [][/\ \A j \in New : hist'[j].id \notin Ids
     /\ Cardinality({hist'[j].id : j \in New}) = Cardinality(New)]_vars

\* Two calls of different callers were suspended in the overflow wait and
\* both have returned.
C1_Witness ==
  \E i \in Waited, j \in Waited : hist[i].caller # hist[j].caller

\* C2 (monotonicity): the id a call returns is greater than every id that
\* had been returned when the call started.
C2_Monotonic ==
  [][\A j \in New :
       FloorOfNew(j) # {} => Less(ValueOf(FloorOfNew(j)), hist'[j].id)]_vars

\* A call that had to wait has returned, and a later call in a later
\* millisecond has returned after it.
C2_Witness ==
  \E j \in Waited :
    /\ j < Len(hist)
    /\ TimestampField(hist[j].id) # TimestampField(hist[Len(hist)].id)

\* C3 (atomicity): while a call is suspended between its first read of
\* lastTimestamp/lastSequence and its write, no other caller's genNewID runs:
\* no other caller starts or resumes a call or has an id returned.
C3_Atomic ==
  [][\A c \in Callers : pc[c] = "sleeping" =>
       \A d \in Callers \ {c} :
         /\ pc'[d] = pc[d]
         /\ \A j \in New : hist'[j].caller # d]_vars

\* C4 (overflow): a call that found the sequence of timestamp T exhausted
\* returns an id with a timestamp field greater than T and sequence 0.
C4_Overflow ==
  \A j \in Waited :
    /\ Less(ValueOf(hist[j].waited), TimestampField(hist[j].id))
    /\ getSequenceFromID(hist[j].id) = 0

\* A call that found the sequence exhausted has returned.
C4_Witness == Waited # {}

\* C5 (clock before epoch): genNewID returns no id made from a negative
\* timestamp (it fails instead), so no returned id is negative.
C5_NoNegativeId == \A j \in 1..Len(hist) : ~hist[j].id.neg

\* C6 (node id round trip): when the instance was created with nodeID = n in
\* [0, 4095], every id it returns decodes to node id n.
C6_NodeRoundTrip ==
  \A o \in given :
    (o.nodeID # Absent /\ ValueOf(o.nodeID) \in 0..ToInt(maxNodeID)) =>
      \A j \in 1..Len(hist) : getNodeIDFromID(hist[j].id) = ValueOf(o.nodeID)

\* C10 (timestamp round trip): decoding a returned id with the timeOffset the
\* instance was created with gives the clock value the call read.
C10_TimestampRoundTrip ==
  [][\A j \in New :
       getTimestampFromID(hist'[j].id, ValueOf(given).timeOffset) = now]_vars

\* C8 (termination): a call suspended in the overflow wait eventually
\* returns, even while other callers keep calling.
C8_Termination ==
  \A c \in Callers : (pc[c] = "sleeping") ~> (pc[c] = "idle")

\* C12 (node-id masking): the instance made from a non-zero nodeID has that
\* value's low 12 bits as its node id; the instance's node id is always in
\* [0, 4095], and so is the node field of every returned id, which is the
\* instance's node id.
C12_NodeMasked ==
  [][/\ \A o \in given' :
          o.nodeID \notin {Absent, Some(0)} =>
            ValueOf(instance').nodeID = ValueOf(o.nodeID) % (2 ^ NODE_ID_BITS)
     /\ instance' # {} => ValueOf(instance').nodeID \in 0..ToInt(maxNodeID)
     /\ \A j \in New :
          /\ getNodeIDFromID(hist'[j].id) \in 0..ToInt(maxNodeID)
          /\ getNodeIDFromID(hist'[j].id) = ValueOf(instance').nodeID]_vars

\* The instance was made from a node id above 12 bits and has returned ids.
C12_Witness ==
  /\ \E o \in given : o.nodeID # Absent /\ ValueOf(o.nodeID) > ToInt(maxNodeID)
  /\ hist # <<>>

\* The ids per millisecond and machine that the module's documentation states
\* (line 22).
DocumentedCapacity == 4096

\* The entries of hist whose id carries the timestamp field T.
IdsAt(T) == {j \in 1..Len(hist) : TimestampField(hist[j].id) = T}

FieldNow == AsUintN(EPOCH_BITS, ReadTimestamp(self, now))

\* The new entry j belongs to a call that starts in this step and returns at
\* once.  It is the first id of the instance with sequence 0; or the clock
\* reads the millisecond of the id returned just before, and it has that
\* timestamp field and the next sequence; or the clock reads another
\* millisecond and it has sequence 0.
Stepping(j) ==
  IF j = 1 THEN getSequenceFromID(hist'[j].id) = 0
  ELSE IF TimestampField(hist'[j - 1].id) = FieldNow
    THEN /\ TimestampField(hist'[j].id) = FieldNow
         /\ getSequenceFromID(hist'[j].id) = getSequenceFromID(hist'[j - 1].id) + 1
    ELSE getSequenceFromID(hist'[j].id) = 0

\* C14 (sequence stepping), with the case the sequence is used up: the first
\* id has sequence 0; a call made in the millisecond of the id returned just
\* before returns that timestamp field and the next sequence, unless that
\* sequence was 1023: then, and only then, the call waits, and it returns
\* sequence 0; a call made in another millisecond returns sequence 0.
C14_Stepping ==
  [][/\ \A j \in New :
          IF hist'[j].waited = {} THEN Stepping(j)
          ELSE getSequenceFromID(hist'[j].id) = 0
     /\ \A c \in Callers :
          (pc[c] = "idle" /\ pc'[c] = "sleeping") =>
            /\ hist # <<>>
            /\ TimestampField(hist[Len(hist)].id) = FieldNow
            /\ getSequenceFromID(hist[Len(hist)].id) = ToInt(maxSequence)]_vars

\* The first three ids were made in the millisecond whose timestamp is 0, the
\* initial value of lastTimestamp, and have the sequences 0, 1, 2.
C14_Witness ==
  /\ Len(hist) >= 3
  /\ \A j \in 1..3 :
       /\ hist[j].waited = {}
       /\ TimestampField(hist[j].id) = Zero
       /\ getSequenceFromID(hist[j].id) = j - 1

\* C14 (sequence stepping), as stated: every call made in the millisecond of
\* the id returned just before returns that timestamp field and the next
\* sequence, so no call has to wait and return another timestamp.
C14_SteppingAlways ==
  [][\A j \in New : hist'[j].waited = {} /\ Stepping(j)]_vars

\* C15 (sequence bound): lastSequence is always in [-1, 1023]; the sequence
\* field of every returned id is in [0, 1023] and the bits above it are the
\* instance's node id, untouched by the sequence.
C15_SequenceBound ==
  [][/\ instance' # {} =>
          /\ ~Less(ValueOf(instance').lastSequence, MinusOne)
          /\ ~Less(maxSequence, ValueOf(instance').lastSequence)
     /\ \A j \in New :
          /\ getSequenceFromID(hist'[j].id) \in 0..ToInt(maxSequence)
          /\ Shr(hist'[j].id, SEQUENCE_BITS)
               = Shr(MakeID(Shr(hist'[j].id, NODE_ID_BITS + SEQUENCE_BITS),
                            self.nodeID, Zero), SEQUENCE_BITS)]_vars

\* The last sequence number of a millisecond has been issued.
C15_Witness ==
  /\ instance # {}
  /\ lastSequence = maxSequence
  /\ hist # <<>>
  /\ getSequenceFromID(hist[Len(hist)].id) = ToInt(maxSequence)

\* C16 (call-order monotonicity): the ids listed in the order their calls
\* started are strictly increasing: a returned id is greater than the ids of
\* the calls that started before its call and smaller than the ids of the
\* calls that started after it.
C16_CallOrderMonotonic ==
  [][\A j \in New : \A i \in 1..Len(hist) :
       (hist[i].order < hist'[j].order) = Less(hist[i].id, hist'[j].id)]_vars

\* C18 (waiting callers): a call that was suspended in the overflow loop
\* returns sequence 0 and a timestamp field that no id returned before
\* carries, be it the id of another waiting call or of any other call.
C18_OnePerMillisecond ==
  [][\A j \in New :
       hist'[j].waited # {} =>
         /\ getSequenceFromID(hist'[j].id) = 0
         /\ \A i \in 1..Len(hist) :
              TimestampField(hist[i].id) # TimestampField(hist'[j].id)]_vars

\* Two calls were suspended in the loop at the same time, having found the
\* same millisecond used up, and both have returned.
C18_Witness ==
  \E i \in Waited, j \in Waited : i # j /\ hist[i].waited = hist[j].waited

\* C19 (state tracks the last issued id): after a step that returns ids,
\* lastTimestamp and lastSequence are the timestamp field and the sequence
\* field of the id returned last; lastTimestamp never decreases; a step that
\* returns no id (a call that starts to wait, a loop turn that sleeps again)
\* leaves both unchanged.
C19_StateTracksLastId ==
  [][/\ New # {} =>
          /\ ValueOf(instance').lastTimestamp = TimestampField(hist'[Len(hist')].id)
          /\ ValueOf(instance').lastSequence = BigOf(getSequenceFromID(hist'[Len(hist')].id))
     /\ (instance # {} /\ instance' # {}) =>
          ~Less(ValueOf(instance').lastTimestamp, lastTimestamp)
     /\ (instance # {} /\ instance' # {} /\ New = {}) =>
          /\ ValueOf(instance').lastTimestamp = lastTimestamp
          /\ ValueOf(instance').lastSequence = lastSequence]_vars

\* ---- a clock that steps back (RegressSpec)

\* C11 (clock regression): also when the clock has stepped back, an id that
\* genNewID returns is greater than every id returned before (the call fails
\* or waits instead of returning one that is equal or smaller).
C11_RegressionSafe ==
  [][\A j \in New :
       maxIssued # {} => Less(ValueOf(maxIssued), hist'[j].id)]_vars

\* ---- get called again (ConfigSpec)

\* C20 (singleton configuration): once the instance exists it stays; a later
\* get call, whatever its options, leaves the instance as it is, and no step
\* changes the instance's nodeID or timeOffset.
C20_ConfigFrozen ==
  [][instance # {} =>
       /\ instance' # {}
       /\ ValueOf(instance').nodeID = self.nodeID
       /\ ValueOf(instance').timeOffset = self.timeOffset
       /\ given' # given => instance' = instance]_vars

\* get was called again with other options than the first time, ids have
\* been generated and one has been decoded.
C20_Witness ==
  /\ Cardinality(given) >= 2
  /\ hist # <<>>
  /\ codec # {}

\* ---- the older generator (OldSpec)

\* C17 (older generator): consecutive awaited calls return strictly
\* increasing, pairwise distinct ids: each returned id is new and greater than
\* the id returned just before it.
C17_OldDistinctIncreasing ==
  [][\A j \in New :
       /\ hist'[j].id \notin Ids
       /\ j > 1 => Less(hist'[j - 1].id, hist'[j].id)]_vars

\* ---- encoding and decoding alone (CodecSpec)

FitsField(timestamp) == ~timestamp.neg /\ Less(timestamp, Shl(One, EPOCH_BITS))

\* C7 (sign bit): an id made from a timestamp that fits the 42 bits, a node
\* id in [0, 4095] and a sequence in [0, 1023] lies in [0, 2^63).
C7_SignBitZero ==
  \A x \in codec :
    FitsField(x.timestamp) =>
      ~x.id.neg /\ Less(x.id, Shl(One, TOTAL_BITS - 1))

\* C9 (bit-field isolation): an id made from fields in range decodes to the
\* same fields, the timestamp being getTimestampFromID(id, e) - e.
C9_FieldsRoundTrip ==
  \A x \in codec : \A d \in x.decoded :
    FitsField(x.timestamp) =>
      /\ Sub(d.timestamp, x.timeOffset) = x.timestamp
      /\ d.nodeID = x.nodeID
      /\ d.sequence = x.sequence

====
